---- MODULE Spec2Model ----
(***************************************************************************)
(* Model of the chat client's turn handling (handleSendMessage and the    *)
(* React state of App).  Texts are sequences of tokens; a turn is one     *)
(* call of handleSendMessage with its closure variables.  Several turns   *)
(* may be in flight at once because the send affordance does not look at  *)
(* isTyping.                                                               *)
(***************************************************************************)
EXTENDS Naturals, Sequences, FiniteSets, TLC

\* ---------------------------------------------------------------- bounds
\* lines handled while one call of handleSendMessage has been made
MaxEvents == 4
\* lines handled by all read loops together once a second call has been made
MaxEventsOfTwo == 3
\* lines of a response body
MaxLines == 2

\* ------------------------------------------------------------- constants
\* undefined / null / an absent field
None == <<"undefined">>

GenericEventError == <<"An error occurred during processing.">>
GenericTransportError ==
    <<"Sorry, I encountered an error connecting to the backend. Please check the console for details.">>

\* inputs of the environment
InputValues == {<<>>, <<" ">>, <<"h", "i">>}
Deltas == {<<>>, <<"A">>, <<"B">>}
TransitionMessages == {None, <<>>, <<"M">>}
ErrorMessages == {None, <<>>, <<"E">>}
SessionIds == {None, <<>>, <<"s1">>, <<"s2">>}
HealthResults == {"ok", "error"}
FetchFailures == {"rejected", "status", "nobody"}
\* lines that reach no case of the switch: no 'data: ' prefix, JSON.parse throws,
\* the payload is null (reading its type throws), no type, a type of no case
IgnoredLines == {"noprefix", "badjson", "nullpayload", "notype", "unknowntype"}
ParseFailures == {"badjson", "nullpayload"}

\* the calls of handleSendMessage the model follows, in the order they are made
Turns == {1, 2}
\* milliseconds between two submissions
SubmitTicks == {1, 2}

VARIABLES
    healthStatus,   \* 'loading' | 'ok' | 'error'
    inputValue,     \* text of the textarea
    hasStarted,
    messages,       \* the Conversation Store
    isTyping,
    sessionId,      \* None or a session identifier
    now,            \* Date.now()
    nTurns,         \* number of calls of handleSendMessage that got past the guard
    nEvents,        \* number of lines handled so far (bounded, see Reading)
    turns,          \* closure state of each call of handleSendMessage
    lastEvent,      \* history: the line the last step handled, <<>> if it handled none
    body,           \* text of a response body, as tokens
    nRead,          \* tokens of body that reader.read() has handed out
    dispatched,     \* types of the events that reached a case of the switch
    readerDone      \* reader.read() has returned done

appVars == <<healthStatus, inputValue, hasStarted, messages, isTyping, sessionId,
             now, nTurns, nEvents, turns, lastEvent>>

\* the variables of the chunk reader, followed by ReaderSpec only: Spec takes the
\* lines of a stream as they reach the line loop
readerVars == <<body, nRead, dispatched, readerDone>>

vars == <<appVars, readerVars>>

\* ------------------------------------------------------------- helpers
RECURSIVE TrimStart(_)
TrimStart(s) == IF s # <<>> /\ Head(s) = " " THEN TrimStart(Tail(s)) ELSE s

RECURSIVE TrimEnd(_)
TrimEnd(s) == IF s # <<>> /\ s[Len(s)] = " " THEN TrimEnd(SubSeq(s, 1, Len(s) - 1)) ELSE s

\* String.prototype.trim
Trim(s) == TrimEnd(TrimStart(s))

\* a JavaScript value used as a condition
Truthy(v) == v # None /\ v # <<>>

Message(id, text, sender) == [id |-> id, text |-> text, sender |-> sender]

\* setMessages((prev) => [...prev, m])
AppendMessage(prev, m) == Append(prev, m)

\* an update that takes the Message out and pushes the new version at the end
UpdateTextMovesLast(prev, id, text) ==
    LET F[i \in 0..Len(prev)] ==
            IF i = 0 THEN <<>>
            ELSE IF prev[i].id = id THEN F[i - 1] ELSE Append(F[i - 1], prev[i])
        G[i \in 0..Len(prev)] ==
            IF i = 0 THEN <<>>
            ELSE IF prev[i].id = id THEN Append(G[i - 1], [prev[i] EXCEPT !.text = text])
                 ELSE G[i - 1]
    IN F[Len(prev)] \o G[Len(prev)]

\* setMessages((prev) => prev.map(m => m.id === id ? { ...m, text } : m))
UpdateText(prev, id, text) ==
    [i \in DOMAIN prev |-> IF prev[i].id = id THEN [prev[i] EXCEPT !.text = text] ELSE prev[i]]

\* setMessages((prev) => prev.map(m => m.id === id ? errorMsg : m))
ReplaceMessage(prev, id, msg) ==
    [i \in DOMAIN prev |-> IF prev[i].id = id THEN msg ELSE prev[i]]

\* a commit that pushes a new Message every time
CommitAlwaysAppends(prev, added, id, text) == AppendMessage(prev, Message(id, text, "ai"))

\* the insert-or-update that agent_complete, transition and complete share
CommitMessages(prev, added, id, text) ==
    IF ~added THEN AppendMessage(prev, Message(id, text, "ai"))
              ELSE UpdateText(prev, id, text)

\* eventData.message || 'An error occurred during processing.'
ErrorText(m) == IF Truthy(m) THEN m ELSE GenericEventError

IdleTurn ==
    [pc |-> "idle", userMsgId |-> 0, aiMsgId |-> 0, sessionId |-> None,
     completeResponse |-> <<>>, currentAgentContent |-> <<>>, aiMessageAdded |-> FALSE,
     h_deltas |-> <<>>, h_arrival |-> <<>>, h_pending |-> FALSE, h_error |-> FALSE,
     h_shape |-> "empty"]

\* history of a turn, kept for the properties only: h_deltas the deltas received,
\* h_arrival the deltas and transition messages in arrival order, h_pending a
\* Content not yet flushed by AgentComplete or Complete, h_error an Error event was
\* dispatched, h_shape the shape of the stream so far: "empty" no event, "plain"
\* Content and AgentComplete events only, "plaindone" such events and then one
\* Done, "other" anything else
Seen(t, kind) ==
    [turns[t] EXCEPT !.h_error = @ \/ kind = "error",
                     !.h_shape =
        IF @ \in {"empty", "plain"} /\ kind \in {"content", "agent_complete"} THEN "plain"
        ELSE IF @ = "plain" /\ kind = "done" THEN "plaindone"
        ELSE "other"]

\* handleSendMessage has returned: its local variables are gone
Returned(t, how) ==
    [IdleTurn EXCEPT !.pc = how, !.userMsgId = turns[t].userMsgId, !.aiMsgId = turns[t].aiMsgId]

Reading(t) ==
    /\ turns[t].pc = "reading"
    /\ nEvents < (IF nTurns > 1 THEN MaxEventsOfTwo ELSE MaxEvents)

\* the step handled the line e = <<kind, turn, ...>> of a read loop.  The history
\* is kept while one call of handleSendMessage has been made; later steps leave
\* it empty.
Handled(e) ==
    /\ lastEvent' = IF nTurns = 1 THEN e ELSE <<>>
    /\ UNCHANGED readerVars

\* the step handled no line
NoLine == lastEvent' = <<>> /\ UNCHANGED readerVars

AppInit ==
    /\ healthStatus = "loading"
    /\ inputValue = <<>>
    /\ hasStarted = FALSE
    /\ messages = <<>>
    /\ isTyping = FALSE
    /\ sessionId = None
    /\ now = 0
    /\ nTurns = 0
    /\ nEvents = 0
    /\ turns = [t \in Turns |-> IdleTurn]
    /\ lastEvent = <<>>

Init ==
    /\ AppInit
    /\ body = <<>>
    /\ nRead = 0
    /\ dispatched = <<>>
    /\ readerDone = FALSE

\* ------------------------------------------------------------- actions
\* a health check that is polled again and overwrites an earlier result
CheckHealthPolledAgain(r) ==
    /\ healthStatus' = r
    /\ healthStatus' # healthStatus
    /\ UNCHANGED <<inputValue, hasStarted, messages, isTyping, sessionId, now, nTurns,
                   nEvents, turns>>
    /\ NoLine

\* the checkHealth effect
CheckHealth(r) ==
    /\ healthStatus = "loading"
    /\ healthStatus' = r
    /\ UNCHANGED <<inputValue, hasStarted, messages, isTyping, sessionId, now, nTurns,
                   nEvents, turns>>
    /\ NoLine

\* textarea onChange; the textarea is disabled unless healthStatus is 'ok'.  Typing
\* is followed only while a further submission is within the model's turns.
TypeInput(v) ==
    /\ healthStatus = "ok"
    /\ v # inputValue
    /\ nTurns < Cardinality(Turns)
    /\ inputValue' = v
    /\ UNCHANGED <<healthStatus, hasStarted, messages, isTyping, sessionId, now, nTurns,
                   nEvents, turns>>
    /\ NoLine

\* an entry of handleSendMessage that shows the indicator before it tests the input
SubmitBlankShowsTyping ==
    /\ healthStatus = "ok"
    /\ ~Truthy(Trim(inputValue))
    /\ hasStarted' = TRUE
    /\ isTyping' = TRUE
    /\ UNCHANGED <<healthStatus, inputValue, messages, sessionId, now, nTurns, nEvents,
                   turns>>
    /\ NoLine

\* handleSendMessage reached through Enter with blank input: early return
SubmitBlank ==
    /\ healthStatus = "ok"
    /\ ~Truthy(Trim(inputValue))
    /\ UNCHANGED <<healthStatus, inputValue, hasStarted, messages, isTyping, sessionId,
                   now, nTurns, nEvents, turns>>
    /\ NoLine

\* a submission whose request body leaves session_id null
SubmitWithoutSession(tick) ==
    /\ healthStatus = "ok"
    /\ Truthy(Trim(inputValue))
    /\ nTurns < Cardinality(Turns)
    /\ (tick = 0) = (nTurns = 0)
    /\ LET t == nTurns + 1
           userId == now + tick
           aiId == userId + 1
       IN /\ messages' = AppendMessage(messages, Message(userId, inputValue, "user"))
          /\ turns' = [turns EXCEPT ![t] =
                 [IdleTurn EXCEPT !.pc = "fetching", !.userMsgId = userId, !.aiMsgId = aiId,
                                  !.sessionId = None]]
          /\ now' = userId
          /\ nTurns' = t
    /\ inputValue' = <<>>
    /\ hasStarted' = TRUE
    /\ isTyping' = TRUE
    /\ UNCHANGED <<healthStatus, sessionId, nEvents>>
    /\ NoLine

\* handleSendMessage up to the fetch call.  tick is the time since the last
\* submission (the first submission is the origin of the clock).  Both readings of Date.now() are taken in the same millisecond: a
\* later second reading shifts aiMsgId and every later id alike.
Submit(tick) ==
    /\ healthStatus = "ok"
    /\ Truthy(Trim(inputValue))
    /\ nTurns < Cardinality(Turns)
    /\ (tick = 0) = (nTurns = 0)
    /\ LET t == nTurns + 1
           userId == now + tick
           aiId == userId + 1
       IN /\ messages' = AppendMessage(messages, Message(userId, inputValue, "user"))
          /\ turns' = [turns EXCEPT ![t] =
                 [IdleTurn EXCEPT !.pc = "fetching", !.userMsgId = userId, !.aiMsgId = aiId,
                                  !.sessionId = sessionId]]
          /\ now' = userId
          /\ nTurns' = t
    /\ inputValue' = <<>>
    /\ hasStarted' = TRUE
    /\ isTyping' = TRUE
    /\ UNCHANGED <<healthStatus, sessionId, nEvents>>
    /\ NoLine

\* fetch resolved with response.ok and a body reader
FetchOk(t) ==
    /\ turns[t].pc = "fetching"
    /\ turns' = [turns EXCEPT ![t].pc = "reading"]
    /\ UNCHANGED <<healthStatus, inputValue, hasStarted, messages, isTyping, sessionId,
                   now, nTurns, nEvents>>
    /\ NoLine

\* the catch block: fetch rejected, !response.ok, no body reader, or reader.read() failed
CatchMessages(prev, added, id) ==
    IF ~added THEN AppendMessage(prev, Message(id, GenericTransportError, "ai"))
              ELSE ReplaceMessage(prev, id, Message(id, GenericTransportError, "ai"))

TransportFailure(t, cause) ==
    /\ \/ turns[t].pc = "fetching" /\ cause \in FetchFailures
       \/ turns[t].pc = "reading" /\ cause = "read"
    /\ messages' = CatchMessages(messages, turns[t].aiMessageAdded, turns[t].aiMsgId)
    /\ isTyping' = FALSE
    /\ turns' = [turns EXCEPT ![t] = Returned(t, "failed")]
    /\ UNCHANGED <<healthStatus, inputValue, hasStarted, sessionId, now, nTurns, nEvents>>
    /\ NoLine

\* a read loop that leaves the indicator alone at the end of the stream
EndOfStreamKeepsTyping(t) ==
    /\ turns[t].pc = "reading"
    /\ turns' = [turns EXCEPT ![t] = Returned(t, "closed")]
    /\ UNCHANGED <<healthStatus, inputValue, hasStarted, messages, isTyping, sessionId, now,
                   nTurns, nEvents>>
    /\ NoLine

\* reader.read() returned done
EndOfStream(t) ==
    /\ turns[t].pc = "reading"
    /\ isTyping' = FALSE
    /\ turns' = [turns EXCEPT ![t] = Returned(t, "closed")]
    /\ UNCHANGED <<healthStatus, inputValue, hasStarted, messages, sessionId, now, nTurns,
                   nEvents>>
    /\ NoLine

\* a line loop without the inner try: a parse failure reaches the catch block
IgnoredLineAborts(t, why) ==
    /\ Reading(t)
    /\ nEvents' = nEvents + 1
    /\ IF why \in ParseFailures
       THEN /\ messages' = CatchMessages(messages, turns[t].aiMessageAdded, turns[t].aiMsgId)
            /\ isTyping' = FALSE
            /\ turns' = [turns EXCEPT ![t] = Returned(t, "failed")]
       ELSE UNCHANGED <<messages, isTyping, turns>>
    /\ UNCHANGED <<healthStatus, inputValue, hasStarted, sessionId, now, nTurns>>
    /\ Handled(<<"ignored", t, why>>)

\* a switch whose default ends the typing indicator and drops the buffer
IgnoredLineResets(t, why) ==
    /\ Reading(t)
    /\ nEvents' = nEvents + 1
    /\ IF why \in {"notype", "unknowntype"}
       THEN /\ isTyping' = FALSE
            /\ turns' = [turns EXCEPT ![t].currentAgentContent = <<>>]
       ELSE UNCHANGED <<isTyping, turns>>
    /\ UNCHANGED <<healthStatus, inputValue, hasStarted, messages, sessionId, now, nTurns>>
    /\ Handled(<<"ignored", t, why>>)

\* a line that is not dispatched: no 'data: ' prefix, JSON.parse throws, or a
\* type that matches no case of the switch
IgnoredLine(t, why) ==
    /\ Reading(t)
    /\ nEvents' = nEvents + 1
    /\ UNCHANGED <<healthStatus, inputValue, hasStarted, messages, isTyping, sessionId,
                   now, nTurns, turns>>
    /\ Handled(<<"ignored", t, why>>)

\* a connected case that does not look at the event's session_id
ConnectedBindsAbsentId(t, sid) ==
    /\ Reading(t)
    /\ sessionId' = IF ~Truthy(turns[t].sessionId) THEN sid ELSE sessionId
    /\ turns' = [turns EXCEPT ![t] = Seen(t, "connected")]
    /\ nEvents' = nEvents + 1
    /\ UNCHANGED <<healthStatus, inputValue, hasStarted, messages, isTyping, now, nTurns>>
    /\ Handled(<<"connected", t, sid, sessionId>>)

\* case 'connected': sessionId is the value the closure captured at submission.  The
\* history keeps the event's session_id and the identifier bound when it arrived.
Connected(t, sid) ==
    /\ Reading(t)
    /\ sessionId' = IF ~Truthy(turns[t].sessionId) /\ Truthy(sid) THEN sid ELSE sessionId
    /\ turns' = [turns EXCEPT ![t] = Seen(t, "connected")]
    /\ nEvents' = nEvents + 1
    /\ UNCHANGED <<healthStatus, inputValue, hasStarted, messages, isTyping, now, nTurns>>
    /\ Handled(<<"connected", t, sid, sessionId>>)

\* case 'status'
Status(t) ==
    /\ Reading(t)
    /\ isTyping' = TRUE
    /\ turns' = [turns EXCEPT ![t] = Seen(t, "status")]
    /\ nEvents' = nEvents + 1
    /\ UNCHANGED <<healthStatus, inputValue, hasStarted, messages, sessionId, now, nTurns>>
    /\ Handled(<<"status", t>>)

\* a content case that assigns the delta instead of appending it
ContentOverwrites(t, delta) ==
    /\ Reading(t)
    /\ turns' = [turns EXCEPT ![t] =
           [Seen(t, "content") EXCEPT !.currentAgentContent = delta,
                                      !.h_deltas = @ \o delta,
                                      !.h_arrival = @ \o delta,
                                      !.h_pending = TRUE]]
    /\ nEvents' = nEvents + 1
    /\ UNCHANGED <<healthStatus, inputValue, hasStarted, messages, isTyping, sessionId,
                   now, nTurns>>
    /\ Handled(<<"content", t, delta>>)

\* case 'content'
Content(t, delta) ==
    /\ Reading(t)
    /\ turns' = [turns EXCEPT ![t] =
           [Seen(t, "content") EXCEPT !.currentAgentContent = @ \o delta,
                                      !.h_deltas = @ \o delta,
                                      !.h_arrival = @ \o delta,
                                      !.h_pending = TRUE]]
    /\ nEvents' = nEvents + 1
    /\ UNCHANGED <<healthStatus, inputValue, hasStarted, messages, isTyping, sessionId,
                   now, nTurns>>
    /\ Handled(<<"content", t, delta>>)

\* an agent_complete case that, like case 'complete', leaves the buffer as it is
AgentCompleteKeepsBuffer(t) ==
    /\ Reading(t)
    /\ LET response == turns[t].completeResponse \o turns[t].currentAgentContent
       IN /\ messages' = CommitMessages(messages, turns[t].aiMessageAdded, turns[t].aiMsgId,
                                        response)
          /\ turns' = [turns EXCEPT ![t] =
                 [Seen(t, "agent_complete") EXCEPT !.completeResponse = response,
                                                   !.aiMessageAdded = TRUE,
                                                   !.h_pending = FALSE]]
    /\ nEvents' = nEvents + 1
    /\ UNCHANGED <<healthStatus, inputValue, hasStarted, isTyping, sessionId, now, nTurns>>
    /\ Handled(<<"agent_complete", t>>)

\* case 'agent_complete'
AgentComplete(t) ==
    /\ Reading(t)
    /\ LET response == turns[t].completeResponse \o turns[t].currentAgentContent
       IN /\ messages' = CommitMessages(messages, turns[t].aiMessageAdded, turns[t].aiMsgId,
                                        response)
          /\ turns' = [turns EXCEPT ![t] =
                 [Seen(t, "agent_complete") EXCEPT !.completeResponse = response,
                                                   !.aiMessageAdded = TRUE,
                                                   !.currentAgentContent = <<>>,
                                                   !.h_pending = FALSE]]
    /\ nEvents' = nEvents + 1
    /\ UNCHANGED <<healthStatus, inputValue, hasStarted, isTyping, sessionId, now, nTurns>>
    /\ Handled(<<"agent_complete", t>>)

\* a transition case that flushes the buffer before it commits
TransitionFlushes(t, m) ==
    /\ Reading(t)
    /\ IF Truthy(m)
       THEN LET response == turns[t].completeResponse \o turns[t].currentAgentContent \o m
            IN /\ messages' = CommitMessages(messages, turns[t].aiMessageAdded,
                                             turns[t].aiMsgId, response)
               /\ turns' = [turns EXCEPT ![t] =
                      [Seen(t, "transition") EXCEPT !.completeResponse = response,
                                                    !.currentAgentContent = <<>>,
                                                    !.aiMessageAdded = TRUE,
                                                    !.h_pending = FALSE,
                                                    !.h_arrival = @ \o m]]
       ELSE /\ messages' = messages
            /\ turns' = [turns EXCEPT ![t] = Seen(t, "transition")]
    /\ nEvents' = nEvents + 1
    /\ UNCHANGED <<healthStatus, inputValue, hasStarted, isTyping, sessionId, now, nTurns>>
    /\ Handled(<<"transition", t, m>>)

\* case 'transition'
Transition(t, m) ==
    /\ Reading(t)
    /\ IF Truthy(m)
       THEN LET response == turns[t].completeResponse \o m
            IN /\ messages' = CommitMessages(messages, turns[t].aiMessageAdded,
                                             turns[t].aiMsgId, response)
               /\ turns' = [turns EXCEPT ![t] =
                      [Seen(t, "transition") EXCEPT !.completeResponse = response,
                                                    !.aiMessageAdded = TRUE,
                                                    !.h_arrival = @ \o m]]
       ELSE /\ messages' = messages
            /\ turns' = [turns EXCEPT ![t] = Seen(t, "transition")]
    /\ nEvents' = nEvents + 1
    /\ UNCHANGED <<healthStatus, inputValue, hasStarted, isTyping, sessionId, now, nTurns>>
    /\ Handled(<<"transition", t, m>>)

\* case 'complete'
Complete(t) ==
    /\ Reading(t)
    /\ IF Truthy(turns[t].currentAgentContent)
       THEN LET response == turns[t].completeResponse \o turns[t].currentAgentContent
            IN /\ messages' = CommitMessages(messages, turns[t].aiMessageAdded,
                                             turns[t].aiMsgId, response)
               /\ turns' = [turns EXCEPT ![t] =
                      [Seen(t, "complete") EXCEPT !.completeResponse = response,
                                                  !.aiMessageAdded = TRUE,
                                                  !.h_pending = FALSE]]
       ELSE /\ messages' = messages
            /\ turns' = [turns EXCEPT ![t] = Seen(t, "complete")]
    /\ isTyping' = FALSE
    /\ nEvents' = nEvents + 1
    /\ UNCHANGED <<healthStatus, inputValue, hasStarted, sessionId, now, nTurns>>
    /\ Handled(<<"complete", t>>)

\* a done case that flushes what is still buffered, as case 'complete' does
DoneFlushes(t) ==
    /\ Reading(t)
    /\ IF Truthy(turns[t].currentAgentContent)
       THEN LET response == turns[t].completeResponse \o turns[t].currentAgentContent
            IN /\ messages' = CommitMessages(messages, turns[t].aiMessageAdded,
                                             turns[t].aiMsgId, response)
               /\ turns' = [turns EXCEPT ![t] =
                      [Seen(t, "done") EXCEPT !.completeResponse = response,
                                              !.aiMessageAdded = TRUE,
                                              !.h_pending = FALSE]]
       ELSE /\ messages' = messages
            /\ turns' = [turns EXCEPT ![t] = Seen(t, "done")]
    /\ isTyping' = FALSE
    /\ nEvents' = nEvents + 1
    /\ UNCHANGED <<healthStatus, inputValue, hasStarted, sessionId, now, nTurns>>
    /\ Handled(<<"done", t>>)

\* case 'done'
Done(t) ==
    /\ Reading(t)
    /\ isTyping' = FALSE
    /\ turns' = [turns EXCEPT ![t] = Seen(t, "done")]
    /\ nEvents' = nEvents + 1
    /\ UNCHANGED <<healthStatus, inputValue, hasStarted, messages, sessionId, now, nTurns>>
    /\ Handled(<<"done", t>>)

\* an error case that overwrites the Message already shown
ErrorStoreOverwrites(prev, added, id, m) ==
    IF ~added THEN AppendMessage(prev, Message(id, ErrorText(m), "ai"))
              ELSE UpdateText(prev, id, ErrorText(m))

\* case 'error': the Message is inserted, aiMessageAdded is not assigned
ErrorStore(prev, added, id, m) ==
    IF ~added THEN AppendMessage(prev, Message(id, ErrorText(m), "ai")) ELSE prev

ErrorEvent(t, m) ==
    /\ Reading(t)
    /\ messages' = ErrorStore(messages, turns[t].aiMessageAdded, turns[t].aiMsgId, m)
    /\ isTyping' = FALSE
    /\ turns' = [turns EXCEPT ![t] = Seen(t, "error")]
    /\ nEvents' = nEvents + 1
    /\ UNCHANGED <<healthStatus, inputValue, hasStarted, sessionId, now, nTurns>>
    /\ Handled(<<"error", t, m>>)

Next ==
    \/ \E r \in HealthResults : CheckHealth(r)
    \/ \E v \in InputValues : TypeInput(v)
    \/ SubmitBlank
    \/ \E tick \in {0} \cup SubmitTicks : Submit(tick)
    \/ \E t \in Turns : FetchOk(t)
    \/ \E t \in Turns, cause \in FetchFailures \cup {"read"} : TransportFailure(t, cause)
    \/ \E t \in Turns : EndOfStream(t)
    \/ \E t \in Turns, why \in IgnoredLines : IgnoredLine(t, why)
    \/ \E t \in Turns, sid \in SessionIds : Connected(t, sid)
    \/ \E t \in Turns : Status(t)
    \/ \E t \in Turns, delta \in Deltas : Content(t, delta)
    \/ \E t \in Turns : AgentComplete(t)
    \/ \E t \in Turns, m \in TransitionMessages : Transition(t, m)
    \/ \E t \in Turns : Complete(t)
    \/ \E t \in Turns : Done(t)
    \/ \E t \in Turns, m \in ErrorMessages : ErrorEvent(t, m)

Spec == Init /\ [][Next]_vars

\* ------------------------------------------------------ the chunk reader
\* A response body is a text of tokens: the prefix 'data: ', the pieces of a JSON
\* payload, and the line feed.
LF == "\n"
DataPrefix == "data: "

KnownTypes == {"connected", "status", "content", "agent_complete", "transition",
               "complete", "done", "error"}

Frame(type) == <<DataPrefix, "{", type, "}">>

\* the lines a body is made of: frames of two known types and of an unknown one, a
\* frame whose JSON is cut short, a null payload, a payload without the prefix, and
\* the blank line that separates SSE events
LineTexts ==
    {Frame("content"), Frame("done"), Frame("ping"), <<DataPrefix, "{", "content">>,
     <<DataPrefix, "null">>, <<"{", "content", "}">>, <<>>}

\* the lines joined by line feeds; the last line feed is there if terminated
JoinLines(ls, terminated) ==
    LET F[i \in 0..Len(ls)] ==
            IF i = 0 THEN <<>>
            ELSE F[i - 1] \o ls[i] \o (IF i < Len(ls) \/ terminated THEN <<LF>> ELSE <<>>)
    IN F[Len(ls)]

Bodies ==
    {JoinLines(ls, terminated) :
        ls \in UNION {[1..n -> LineTexts] : n \in 1..MaxLines}, terminated \in BOOLEAN}

\* chunk.split('\n')
RECURSIVE SplitLines(_)
SplitLines(chunk) ==
    IF \A i \in DOMAIN chunk : chunk[i] # LF THEN <<chunk>>
    ELSE LET i == CHOOSE k \in DOMAIN chunk :
                      chunk[k] = LF /\ \A j \in 1..(k - 1) : chunk[j] # LF
         IN <<SubSeq(chunk, 1, i - 1)>> \o SplitLines(SubSeq(chunk, i + 1, Len(chunk)))

\* JSON.parse(payload) followed by eventData.type: the type of a well-formed
\* object, or the error thrown
ParsedType(payload) ==
    IF Len(payload) = 3 /\ payload[1] = "{" /\ payload[3] = "}" THEN payload[2]
    ELSE IF payload = <<"null">> THEN "TypeError"
    ELSE "SyntaxError"

\* the body of the for loop: the event types one line brings to a case
EventsOfLine(line) ==
    IF line # <<>> /\ Head(line) = DataPrefix
    THEN IF ParsedType(Tail(line)) \in KnownTypes THEN <<ParsedType(Tail(line))>> ELSE <<>>
    ELSE <<>>

RECURSIVE EventsOfLines(_)
EventsOfLines(ls) ==
    IF ls = <<>> THEN <<>> ELSE EventsOfLine(Head(ls)) \o EventsOfLines(Tail(ls))

\* one pass of the while loop over a chunk
EventsOfChunk(chunk) == EventsOfLines(SplitLines(chunk))

ReaderInit ==
    /\ AppInit
    /\ body \in Bodies
    /\ nRead = 0
    /\ dispatched = <<>>
    /\ readerDone = FALSE

\* reader.read() hands out the next n tokens, cut wherever the transport cut them
ReadChunk(n) ==
    /\ ~readerDone
    /\ nRead + n <= Len(body)
    /\ dispatched' = dispatched \o EventsOfChunk(SubSeq(body, nRead + 1, nRead + n))
    /\ nRead' = nRead + n
    /\ UNCHANGED <<body, readerDone, appVars>>

\* reader.read() returns done
ReadDone ==
    /\ ~readerDone
    /\ nRead = Len(body)
    /\ readerDone' = TRUE
    /\ UNCHANGED <<body, nRead, dispatched, appVars>>

\* a chunk holds up to a whole body
ChunkSizes == 1..(MaxLines * (Len(Frame("content")) + 1))

ReaderNext ==
    \/ \E n \in ChunkSizes : ReadChunk(n)
    \/ ReadDone

ReaderSpec == ReaderInit /\ [][ReaderNext]_vars

\* ------------------------------------------- the non-streaming mode
\* handleSendMessage of src/frontend/src/App.tsx: one POST /api/chat per turn,
\* answered by a single JSON body { reply, session_id }.  The state of App and
\* the entry of handleSendMessage are those of the streaming version; the id of
\* the ai Message is taken from the clock when the response is handled.
Replies == {None, <<"R">>}
ChatFailures == {"rejected", "status", "badbody"}

\* handleSendMessage up to the fetch call
ChatSubmit(tick) ==
    /\ healthStatus = "ok"
    /\ Truthy(Trim(inputValue))
    /\ nTurns < Cardinality(Turns)
    /\ (tick = 0) = (nTurns = 0)
    /\ LET t == nTurns + 1
           userId == now + tick
       IN /\ messages' = AppendMessage(messages, Message(userId, inputValue, "user"))
          /\ turns' = [turns EXCEPT ![t] =
                 [IdleTurn EXCEPT !.pc = "fetching", !.userMsgId = userId,
                                  !.sessionId = sessionId]]
          /\ now' = userId
          /\ nTurns' = t
    /\ inputValue' = <<>>
    /\ hasStarted' = TRUE
    /\ isTyping' = TRUE
    /\ UNCHANGED <<healthStatus, sessionId, nEvents>>
    /\ NoLine

\* response.ok and response.json() gave an object: sessionId is the value the
\* closure captured at submission; tick is the time the answer took
ChatReply(t, reply, sid, tick) ==
    /\ turns[t].pc = "fetching"
    /\ sessionId' = IF ~Truthy(turns[t].sessionId) /\ Truthy(sid) THEN sid ELSE sessionId
    /\ now' = now + tick
    /\ messages' = AppendMessage(messages, Message(now' + 1, reply, "ai"))
    /\ isTyping' = FALSE
    /\ turns' = [turns EXCEPT ![t] = [Returned(t, "closed") EXCEPT !.aiMsgId = now' + 1]]
    /\ UNCHANGED <<healthStatus, inputValue, hasStarted, nTurns, nEvents>>
    /\ NoLine

\* the catch block: fetch rejected, !response.ok, or response.json() failed
ChatFailure(t, cause, tick) ==
    /\ turns[t].pc = "fetching"
    /\ now' = now + tick
    /\ messages' = AppendMessage(messages, Message(now' + 1, GenericTransportError, "ai"))
    /\ isTyping' = FALSE
    /\ turns' = [turns EXCEPT ![t] = [Returned(t, "failed") EXCEPT !.aiMsgId = now' + 1]]
    /\ UNCHANGED <<healthStatus, inputValue, hasStarted, sessionId, nTurns, nEvents>>
    /\ NoLine

ChatNext ==
    \/ \E r \in HealthResults : CheckHealth(r)
    \/ \E v \in InputValues : TypeInput(v)
    \/ SubmitBlank
    \/ \E tick \in {0} \cup SubmitTicks : ChatSubmit(tick)
    \/ \E t \in Turns, reply \in Replies, sid \in SessionIds, tick \in SubmitTicks :
           ChatReply(t, reply, sid, tick)
    \/ \E t \in Turns, cause \in ChatFailures, tick \in SubmitTicks :
           ChatFailure(t, cause, tick)

ChatSpec == Init /\ [][ChatNext]_vars

\* --------------------------------------------------- the simulated mode
\* handleSendMessage of src/unnamed/part_001: no backend and no health check; the
\* reply is a fixed text appended by a timer 1500 ms after the submission, so the
\* timers fire in the order of the submissions.
SimulatedReply == <<"This is a simulated AI response based on your input. In a real application, this would connect to an API.">>

\* textarea onChange, or a click on a suggestion card
SimTypeInput(v) ==
    /\ v # inputValue
    /\ nTurns < Cardinality(Turns)
    /\ inputValue' = v
    /\ UNCHANGED <<healthStatus, hasStarted, messages, isTyping, sessionId, now, nTurns,
                   nEvents, turns>>
    /\ NoLine

\* handleSendMessage reached through Enter with blank input: early return
SimSubmitBlank ==
    /\ ~Truthy(Trim(inputValue))
    /\ UNCHANGED <<healthStatus, inputValue, hasStarted, messages, isTyping, sessionId,
                   now, nTurns, nEvents, turns>>
    /\ NoLine

\* handleSendMessage up to setTimeout
SimSubmit(tick) ==
    /\ Truthy(Trim(inputValue))
    /\ nTurns < Cardinality(Turns)
    /\ (tick = 0) = (nTurns = 0)
    /\ LET t == nTurns + 1
           userId == now + tick
       IN /\ messages' = AppendMessage(messages, Message(userId, inputValue, "user"))
          /\ turns' = [turns EXCEPT ![t] =
                 [IdleTurn EXCEPT !.pc = "waiting", !.userMsgId = userId]]
          /\ now' = userId
          /\ nTurns' = t
    /\ inputValue' = <<>>
    /\ hasStarted' = TRUE
    /\ isTyping' = TRUE
    /\ UNCHANGED <<healthStatus, sessionId, nEvents>>
    /\ NoLine

\* the timer's callback; tick is the time since the last reading of the clock
SimReply(t, tick) ==
    /\ turns[t].pc = "waiting"
    /\ \A u \in Turns : u < t => turns[u].pc # "waiting"
    /\ now' = now + tick
    /\ messages' = AppendMessage(messages, Message(now' + 1, SimulatedReply, "ai"))
    /\ isTyping' = FALSE
    /\ turns' = [turns EXCEPT ![t] = [Returned(t, "closed") EXCEPT !.aiMsgId = now' + 1]]
    /\ UNCHANGED <<healthStatus, inputValue, hasStarted, sessionId, nTurns, nEvents>>
    /\ NoLine

SimNext ==
    \/ \E v \in InputValues : SimTypeInput(v)
    \/ SimSubmitBlank
    \/ \E tick \in {0} \cup SubmitTicks : SimSubmit(tick)
    \/ \E t \in Turns, tick \in SubmitTicks : SimReply(t, tick)

SimSpec == Init /\ [][SimNext]_vars

TypeOK ==
    /\ healthStatus \in {"loading", "ok", "error"}
    /\ inputValue \in InputValues
    /\ isTyping \in BOOLEAN
    /\ nTurns \in 0..Cardinality(Turns)
    /\ nEvents \in 0..MaxEvents

\* ------------------------------------------------------------ properties
Active(t) == turns[t].pc \in {"fetching", "reading"}
Started(t) == turns[t].pc # "idle"

\* the ai Messages of a store that carry the given id
AiMessages(msgs, id) == {i \in DOMAIN msgs : msgs[i].id = id /\ msgs[i].sender = "ai"}
AiCount(msgs, id) == Cardinality(AiMessages(msgs, id))

\* s is a (scattered) subsequence of txt
RECURSIVE IsSubseq(_, _)
IsSubseq(s, txt) ==
    IF s = <<>> THEN TRUE
    ELSE IF txt = <<>> THEN FALSE
    ELSE IF Head(s) = Head(txt) THEN IsSubseq(Tail(s), Tail(txt))
    ELSE IsSubseq(s, Tail(txt))

\* C1: whatever events a turn receives and however it exits, the Store holds at
\* most one ai Message carrying the turn's aiMessageId.
C1_AtMostOneAiMessage ==
    \A t \in Turns : Started(t) => AiCount(messages, turns[t].aiMsgId) <= 1

\* C2: when a stream ends without transport failure after a Content event with a
\* non-empty delta, the Store holds exactly one ai Message of the turn.
C2_ExactlyOneAfterContent ==
    [][\A t \in Turns :
          (EndOfStream(t) /\ turns[t].h_deltas # <<>>)
              => AiCount(messages', turns[t].aiMsgId) = 1]_vars

\* C3: once the read loop of the only active turn has exited (end of stream or any
\* transport failure), typing is false: with no turn in flight isTyping is false.
C3_TypingClearedOnExit ==
    (\A t \in Turns : ~Active(t)) => ~isTyping

C3_Witness ==
    /\ \E t \in Turns : turns[t].pc = "closed"
    /\ \E t \in Turns : turns[t].pc = "failed"
    /\ \A t \in Turns : ~Active(t)
    /\ ~isTyping

\* C4: a Content event leaves the Store unchanged, and right after the next
\* commit-triggering event (AgentComplete, Transition with a message, Complete) the
\* turn's ai Message text contains every delta received so far.
C4_ContentWithheldThenShown ==
    [][\A t \in Turns :
          /\ \A d \in Deltas : Content(t, d) => messages' = messages
          /\ ( /\ \/ AgentComplete(t)
                  \/ \E m \in TransitionMessages : Truthy(m) /\ Transition(t, m)
                  \/ Complete(t)
               /\ turns[t].h_deltas # <<>> )
             => \E i \in AiMessages(messages', turns[t].aiMsgId) :
                    IsSubseq(turns[t].h_deltas, messages'[i].text)]_vars

\* C5: a stream of Content and AgentComplete events only, every Content followed
\* by an AgentComplete, then Done: at the end of the stream the Store holds exactly
\* one ai Message of the turn, and its text is the deltas concatenated in arrival
\* order.
C5_PlainStreamConcatenates ==
    [][\A t \in Turns :
          (turns[t].h_shape = "plaindone" /\ ~turns[t].h_pending /\ EndOfStream(t))
              => /\ AiCount(messages', turns[t].aiMsgId) = 1
                 /\ \A i \in AiMessages(messages', turns[t].aiMsgId) :
                        messages'[i].text = turns[t].h_deltas]_vars

\* the stream A, B, agent_complete, done has been dispatched and its text is shown
C5_Witness ==
    \E t \in Turns :
        /\ turns[t].pc = "reading"
        /\ turns[t].h_shape = "plaindone" /\ ~turns[t].h_pending
        /\ turns[t].h_deltas = <<"A", "B">>
        /\ \E i \in AiMessages(messages, turns[t].aiMsgId) : messages[i].text = <<"A", "B">>

\* C6: the final text follows the arrival order of the events that produced it:
\* deltas X received before a Transition message M come before M in the text shown
\* when the stream has ended normally with all buffered content flushed.
C6_TextFollowsArrivalOrder ==
    [][\A t \in Turns :
          (EndOfStream(t) /\ ~turns[t].h_pending /\ ~turns[t].h_error
                          /\ turns[t].h_arrival # <<>>)
              => \E i \in AiMessages(messages', turns[t].aiMsgId) :
                     messages'[i].text = turns[t].h_arrival]_vars

\* C7: on a transport failure, a turn without an ai Message in the Store gets one
\* with the generic error text appended; otherwise the existing ai Message has its
\* text replaced by the generic error text and no Message is added; typing ends
\* false.
C7_TransportFailureInsertsOrReplaces ==
    [][\A t \in Turns, cause \in FetchFailures \cup {"read"} :
          TransportFailure(t, cause) =>
              /\ IF AiCount(messages, turns[t].aiMsgId) = 0
                 THEN messages' = Append(messages,
                                         Message(turns[t].aiMsgId, GenericTransportError, "ai"))
                 ELSE /\ Len(messages') = Len(messages)
                      /\ \A i \in AiMessages(messages, turns[t].aiMsgId) :
                             messages'[i] = [messages[i] EXCEPT !.text = GenericTransportError]
              /\ ~isTyping']_vars

\* C8: an Error event inserts an ai Message (the event's message, or the generic
\* fallback when it is absent or empty) if the turn has none yet, leaves the Store
\* unchanged if the turn's ai Message exists, and sets typing false.
C8_ErrorInsertsOnce ==
    [][\A t \in Turns, m \in ErrorMessages :
          ErrorEvent(t, m) =>
              /\ IF AiCount(messages, turns[t].aiMsgId) = 0
                 THEN messages' = Append(messages,
                          Message(turns[t].aiMsgId,
                                  IF m = None \/ m = <<>> THEN GenericEventError ELSE m, "ai"))
                 ELSE messages' = messages
              /\ ~isTyping']_vars

C10_SessionBoundOnce ==
    [][sessionId # None => sessionId' = sessionId]_vars

\* C11: session binding is idempotent: a Connected event that carries the identifier
\* already bound leaves the Session identifier unchanged, and a Connected event with
\* no or an empty session_id never changes it.
C11_SessionBindingIdempotent ==
    [][\A t \in Turns, sid \in SessionIds :
          ((sid = sessionId \/ sid = None \/ sid = <<>>) /\ Connected(t, sid))
              => sessionId' = sessionId]_vars

\* a second Connected event carrying the bound identifier has been handled
C11_Witness ==
    /\ lastEvent = <<"connected", 1, <<"s1">>, <<"s1">>>>
    /\ sessionId = <<"s1">>

\* C12: every outgoing request carries the current Session identifier: the request
\* of a turn has session_id equal to the identifier bound when the turn is submitted
\* (null only if none has been bound).
C12_RequestCarriesSession ==
    [][\A tick \in {0} \cup SubmitTicks :
          Submit(tick) => turns'[nTurns + 1].sessionId = sessionId]_vars

\* the request of a turn submitted after the binding of s1 is in flight with s1
C12_Witness ==
    /\ turns[2].pc = "fetching"
    /\ turns[2].sessionId = <<"s1">>
    /\ turns[1].sessionId = None

\* C13: a frame that fails to parse (invalid JSON, or a payload such as null) never
\* aborts the turn and changes no turn state: the read loop goes on with the Store,
\* typing, the Session identifier and the turn's variables as they were, so the
\* frames around it are handled as if it were absent, and no error Message appears.
C13_ParseFailureSwallowed ==
    [][\A t \in Turns, why \in ParseFailures :
          IgnoredLine(t, why)
              => /\ UNCHANGED <<messages, isTyping, sessionId, turns>>
                 /\ turns'[t].pc = "reading"]_vars

\* an unparsable frame has been handled between Content A and what follows: the
\* turn still reads, with A buffered and no ai Message
C13_Witness ==
    /\ lastEvent = <<"ignored", 1, "badjson">>
    /\ turns[1].pc = "reading"
    /\ turns[1].currentAgentContent = <<"A">>
    /\ isTyping
    /\ AiCount(messages, turns[1].aiMsgId) = 0

\* C14: a frame whose type is missing or none of the known kinds, and a line
\* without the data prefix, leave every piece of state unchanged: the Store, typing,
\* the Session identifier, completeResponse, currentAgentContent, aiMessageAdded.
C14_UnknownLinesChangeNothing ==
    [][\A t \in Turns, why \in {"notype", "unknowntype", "noprefix"} :
          IgnoredLine(t, why)
              => /\ UNCHANGED <<messages, isTyping, sessionId>>
                 /\ turns'[t].completeResponse = turns[t].completeResponse
                 /\ turns'[t].currentAgentContent = turns[t].currentAgentContent
                 /\ turns'[t].aiMessageAdded = turns[t].aiMessageAdded]_vars

\* a frame of unknown type has been handled after a commit and a further Content:
\* the committed text, the buffer and typing are as they were
C14_Witness ==
    /\ lastEvent = <<"ignored", 1, "unknowntype">>
    /\ turns[1].aiMessageAdded
    /\ turns[1].completeResponse = <<"A">>
    /\ turns[1].currentAgentContent = <<"B">>
    /\ isTyping
    /\ \E i \in AiMessages(messages, turns[1].aiMsgId) : messages[i].text = <<"A">>

\* C15: line reassembly across chunks: however the text of a stream is cut into
\* chunks, the events dispatched when the stream has ended are those of the text
\* read in one piece; a frame cut in two is dispatched once its line feed arrives.
C15_SameEventsForAnyChunking ==
    (readerDone /\ body # <<>> /\ body[Len(body)] = LF)
        => dispatched = EventsOfChunk(body)

\* C16: after a Done event the turn is over: no later event of the stream changes
\* the Store or sets typing back to true.
C16_NothingAfterDone ==
    [][\A t \in Turns :
          ( /\ turns[t].h_shape = "plaindone"
            /\ turns'[t].pc = "reading"
            /\ turns'[t] # turns[t] )
              => /\ messages' = messages
                 /\ isTyping' => isTyping]_vars

\* C17: at most one turn is active at any time: while a turn is in flight no second
\* turn is started.
C17_AtMostOneActiveTurn ==
    Cardinality({t \in Turns : Active(t)}) <= 1

\* C18: every update of a Message keeps the Store's order and length: update_text
\* replaces only the text of the Messages with the given id and is a no-op when no
\* Message has that id; a step that changes the Store appends one Message at the
\* end or changes in place the Messages of one id.
C18_UpdatesKeepOrderAndLength ==
    [][messages' # messages =>
          /\ \A id \in 0..(now + 2) :
                LET u == UpdateText(messages, id, <<"A">>)
                IN /\ Len(u) = Len(messages)
                   /\ \A i \in DOMAIN messages :
                          /\ u[i].id = messages[i].id
                          /\ u[i].sender = messages[i].sender
                          /\ u[i].text = IF messages[i].id = id THEN <<"A">>
                                         ELSE messages[i].text
          /\ \/ /\ Len(messages') = Len(messages) + 1
                /\ SubSeq(messages', 1, Len(messages)) = messages
             \/ /\ Len(messages') = Len(messages)
                /\ \A i \in DOMAIN messages : messages'[i].id = messages[i].id
                /\ \E id \in {messages[i].id : i \in DOMAIN messages} :
                       \A i \in DOMAIN messages :
                           messages[i].id # id => messages'[i] = messages[i]]_vars

\* a Transition message has been added in place to the text A committed before it
C18_Witness ==
    /\ lastEvent = <<"transition", 1, <<"M">>>>
    /\ turns[1].completeResponse = <<"A", "M">>
    /\ Len(messages) = 2
    /\ messages[1].sender = "user"
    /\ messages[2] = Message(turns[1].aiMsgId, <<"A", "M">>, "ai")

\* a commit of turn t: AgentComplete, Transition with a message, Complete with
\* buffered content
CommitStep(t) ==
    \/ AgentComplete(t)
    \/ \E m \in TransitionMessages : Truthy(m) /\ Transition(t, m)
    \/ Truthy(turns[t].currentAgentContent) /\ Complete(t)

\* C19: the commit rule: a commit made while aiMessageAdded is false appends a new
\* ai Message with id aiMsgId and text completeResponse and sets aiMessageAdded;
\* a commit made while it is true sets the text of the existing Message to
\* completeResponse in place and adds no Message.
C19_CommitRule ==
    [][\A t \in Turns :
          (nEvents' # nEvents /\ CommitStep(t)) =>
              /\ turns'[t].aiMessageAdded
              /\ IF ~turns[t].aiMessageAdded
                 THEN messages' = Append(messages,
                          Message(turns[t].aiMsgId, turns'[t].completeResponse, "ai"))
                 ELSE /\ Len(messages') = Len(messages)
                      /\ \A i \in DOMAIN messages :
                             messages'[i] =
                                 IF messages[i].id = turns[t].aiMsgId
                                 THEN [messages[i] EXCEPT !.text = turns'[t].completeResponse]
                                 ELSE messages[i]
                      /\ AiCount(messages', turns[t].aiMsgId) >= 1]_vars

\* a Transition message M has inserted the turn's Message and the AgentComplete
\* that followed Content A has extended it in place
C19_Witness ==
    /\ lastEvent = <<"agent_complete", 1>>
    /\ turns[1].h_arrival = <<"M", "A">>
    /\ turns[1].aiMessageAdded
    /\ Len(messages) = 2
    /\ messages[2] = Message(turns[1].aiMsgId, <<"M", "A">>, "ai")

\* C20: Complete flushes the buffered text exactly once: a Complete or
\* AgentComplete that follows a flush with no Content in between does not add text
\* to the visible Message again.
C20_CompleteFlushesOnce ==
    [][\A t \in Turns :
          ( /\ turns[t].aiMessageAdded /\ ~turns[t].h_pending
            /\ nEvents' # nEvents
            /\ (Complete(t) \/ AgentComplete(t)) )
              => messages' = messages]_vars

\* C21: on AgentComplete the buffer is appended to completeResponse, the buffer
\* becomes empty and the result is committed in the same step: the visible text
\* goes from the text committed before to that text plus the agent's whole
\* buffered output, the Content events in between having shown nothing.
C21_AgentCompleteCommitsAtOnce ==
    [][\A t \in Turns :
          /\ (nEvents' # nEvents /\ AgentComplete(t)) =>
                LET response == turns[t].completeResponse \o turns[t].currentAgentContent
                IN /\ turns'[t].completeResponse = response
                   /\ turns'[t].currentAgentContent = <<>>
                   /\ \E i \in AiMessages(messages', turns[t].aiMsgId) :
                          messages'[i].text = response
                   /\ IF turns[t].aiMessageAdded
                      THEN /\ Len(messages') = Len(messages)
                           /\ \E i \in AiMessages(messages, turns[t].aiMsgId) :
                                  messages[i].text = turns[t].completeResponse
                      ELSE Len(messages') = Len(messages) + 1
          /\ \A d \in Deltas : (nEvents' # nEvents /\ Content(t, d)) => messages' = messages]_vars

\* Content A and Content B were buffered unseen and one AgentComplete has shown AB
C21_Witness ==
    /\ lastEvent = <<"agent_complete", 1>>
    /\ nEvents = 3
    /\ turns[1].h_deltas = <<"A", "B">>
    /\ turns[1].completeResponse = <<"A", "B">>
    /\ turns[1].currentAgentContent = <<>>
    /\ Len(messages) = 2
    /\ messages[2] = Message(turns[1].aiMsgId, <<"A", "B">>, "ai")

\* the Store holds the user Message of turn t
HasUserMessage(t) ==
    \E i \in DOMAIN messages :
        messages[i].sender = "user" /\ messages[i].id = turns[t].userMsgId

\* C22: in the non-streaming mode a submission ends with exactly one new ai Message
\* appended at the end of the Store, after the turn's user Message - the reply on
\* success, the generic error text on a failure - with typing false, and the
\* Session identifier is bound from the response only if none was bound before.
C22_ChatOneReplyAndSessionOnce ==
    [][/\ \A t \in Turns, tick \in SubmitTicks :
             /\ \A reply \in Replies, sid \in SessionIds :
                    ChatReply(t, reply, sid, tick) =>
                        /\ HasUserMessage(t)
                        /\ messages' = Append(messages, Message(now' + 1, reply, "ai"))
                        /\ ~isTyping'
                        /\ turns'[t].pc = "closed"
             /\ \A cause \in ChatFailures :
                    ChatFailure(t, cause, tick) =>
                        /\ HasUserMessage(t)
                        /\ messages' =
                               Append(messages, Message(now' + 1, GenericTransportError, "ai"))
                        /\ ~isTyping'
                        /\ turns'[t].pc = "failed"
       /\ sessionId # None => sessionId' = sessionId]_vars

\* the lines of a text that a line feed ends: all pieces of the split but the last
CompleteLines(text) == SubSeq(SplitLines(text), 1, Len(SplitLines(text)) - 1)

\* C23: a trailing line that no line feed ends is discarded: a final frame without
\* its line feed is never dispatched, so the events dispatched never outnumber
\* those of the body's complete lines.
C23_UnterminatedLineDiscarded ==
    Len(dispatched) <= Len(EventsOfLines(CompleteLines(body)))

\* C24: a Transition event with a message appends the message to completeResponse,
\* leaves currentAgentContent as it is and commits; a Transition event without a
\* message changes neither the Store nor completeResponse, currentAgentContent,
\* aiMessageAdded or typing.
C24_TransitionEffect ==
    [][\A t \in Turns, m \in TransitionMessages :
          (nEvents' # nEvents /\ Transition(t, m)) =>
              /\ turns'[t].currentAgentContent = turns[t].currentAgentContent
              /\ isTyping' = isTyping
              /\ IF m # None /\ m # <<>>
                 THEN /\ turns'[t].completeResponse = turns[t].completeResponse \o m
                      /\ turns'[t].aiMessageAdded
                      /\ \E i \in AiMessages(messages', turns[t].aiMsgId) :
                             messages'[i].text = turns[t].completeResponse \o m
                 ELSE /\ messages' = messages
                      /\ turns'[t].completeResponse = turns[t].completeResponse
                      /\ turns'[t].aiMessageAdded = turns[t].aiMessageAdded]_vars

\* a Transition message M has been committed while Content A stays buffered
C24_Witness ==
    /\ lastEvent = <<"transition", 1, <<"M">>>>
    /\ turns[1].currentAgentContent = <<"A">>
    /\ turns[1].completeResponse = <<"M">>
    /\ Len(messages) = 2
    /\ messages[2] = Message(turns[1].aiMsgId, <<"M">>, "ai")

\* the accumulation variables of turn t stay as they are
BuffersUnchanged(t) ==
    /\ turns'[t].completeResponse = turns[t].completeResponse
    /\ turns'[t].currentAgentContent = turns[t].currentAgentContent
    /\ turns'[t].aiMessageAdded = turns[t].aiMessageAdded

\* C25: Connected, Status and Done events never change the Store or the
\* accumulation buffers: Connected changes at most the Session identifier, Status
\* only sets typing to true, Done only sets typing to false.
C25_SignalsLeaveTextAlone ==
    [][\A t \in Turns :
          nEvents' # nEvents =>
              /\ \A sid \in SessionIds :
                     Connected(t, sid) =>
                         messages' = messages /\ BuffersUnchanged(t) /\ isTyping' = isTyping
              /\ Status(t) =>
                     /\ messages' = messages /\ BuffersUnchanged(t)
                     /\ sessionId' = sessionId /\ isTyping'
              /\ Done(t) =>
                     /\ messages' = messages /\ BuffersUnchanged(t)
                     /\ sessionId' = sessionId /\ ~isTyping']_vars

\* Done has been handled with Content A still buffered: typing is off, the buffer
\* and the Store are as they were
C25_Witness ==
    /\ lastEvent = <<"done", 1>>
    /\ turns[1].currentAgentContent = <<"A">>
    /\ ~turns[1].aiMessageAdded
    /\ ~isTyping
    /\ Len(messages) = 1

\* the step dispatched an event of the stream of turn t
EventOf(t) ==
    \/ Status(t) \/ Done(t) \/ Complete(t) \/ AgentComplete(t)
    \/ \E sid \in SessionIds : Connected(t, sid)
    \/ \E d \in Deltas : Content(t, d)
    \/ \E m \in TransitionMessages : Transition(t, m)
    \/ \E m \in ErrorMessages : ErrorEvent(t, m)

\* C26: the error stays the turn's visible reply: once an Error event has inserted
\* the turn's ai Message, the later events of the stream leave the Store as it is,
\* with that one ai Message and its text.
C26_ErrorStaysTheReply ==
    [][\A t \in Turns :
          ( /\ turns[t].h_error /\ ~turns[t].aiMessageAdded
            /\ AiCount(messages, turns[t].aiMsgId) = 1
            /\ nEvents' # nEvents
            /\ EventOf(t) )
              => messages' = messages]_vars


\* C27: the health check runs once and only gates sending: healthStatus leaves
\* "loading" for "ok" or "error" and never changes afterwards, the step that sets it
\* leaves the Store, typing and the Session identifier as they are, and a submission
\* (blank or not) is taken only while healthStatus is "ok".
C27_HealthOnlyGatesSending ==
    [][ /\ healthStatus' # healthStatus =>
             /\ healthStatus = "loading"
             /\ healthStatus' \in {"ok", "error"}
             /\ messages' = messages
             /\ isTyping' = isTyping
             /\ sessionId' = sessionId
             /\ turns' = turns
        /\ (nTurns' # nTurns \/ inputValue' # inputValue) => healthStatus = "ok"
        /\ healthStatus # "ok" => (messages' = messages /\ turns' = turns) ]_vars

\* the check has answered ok, a message was submitted and its stream bound a Session
C27_Witness ==
    /\ healthStatus = "ok"
    /\ nTurns = 1
    /\ sessionId = <<"s1">>
    /\ lastEvent = <<"connected", 1, <<"s1">>, None>>


\* the Store holds an ai Message carrying the id (a user Message of a submission
\* made one millisecond later can carry the same id: it is not counted)
InStore(id) == AiCount(messages, id) > 0

\* C28: while a call of handleSendMessage is in progress, its aiMessageAdded is
\* true if and only if the Conversation Store contains a Message with the turn's
\* aiMessageId: the flag and the Store never disagree, also after Error events.
C28_FlagAgreesWithStore ==
    \A t \in Turns : Active(t) => (turns[t].aiMessageAdded <=> InStore(turns[t].aiMsgId))


\* C29: typing is false only when no turn is in progress: from a submission until
\* that turn's read loop exits (or its call fails) typing stays true, within one
\* turn and when two turns overlap.
C29_TypingWhileInProgress ==
    (\E t \in Turns : Active(t)) => isTyping


\* s is a prefix of txt
IsPrefix(s, txt) == Len(s) <= Len(txt) /\ SubSeq(txt, 1, Len(s)) = s

\* every ai Message of turn t that is shown keeps its place and its text, extended
\* at the end at most
TextOnlyGrows(t) ==
    \A i \in AiMessages(messages, turns[t].aiMsgId) :
        /\ i \in DOMAIN messages'
        /\ messages'[i].id = messages[i].id
        /\ IsPrefix(messages[i].text, messages'[i].text)

\* C30: within a turn with no transport failure, the visible text of the turn's ai
\* Message only grows by appending: over every event of the read loop, the text
\* shown before the event is a prefix of the text shown after it.
C30_VisibleTextOnlyGrows ==
    [][\A t \in Turns : (nEvents' # nEvents /\ EventOf(t)) => TextOnlyGrows(t)]_vars


\* the step is made by the call of handleSendMessage that runs turn t: a line of
\* its read loop is dispatched, or its catch block runs
StepOfTurn(t) ==
    \/ nEvents' # nEvents /\ EventOf(t)
    \/ \E cause \in FetchFailures \cup {"read"} : TransportFailure(t, cause)

\* C31: no event or failure of a turn alters a Message that does not belong to
\* that turn's ai reply: every Message stays in its place, and one whose text or
\* sender changes in a step is an ai Message carrying the aiMessageId of the turn
\* that makes the step; user Messages and other turns' ai Messages are kept.
C31_OtherMessagesUntouched ==
    [][messages' # messages =>
          \A i \in DOMAIN messages :
              /\ i \in DOMAIN messages'
              /\ messages'[i] # messages[i] =>
                     /\ messages[i].sender = "ai"
                     /\ \E t \in Turns : /\ messages[i].id = turns[t].aiMsgId
                                         /\ StepOfTurn(t)]_vars


\* the user Messages of the Store
UserCount(msgs) == Cardinality({i \in DOMAIN msgs : msgs[i].sender = "user"})

\* every ai Message carrying the aiMessageId of a call comes after the place of
\* the Message that call appended at its entry
AiAfterUser(msgs, ts) ==
    \A t \in Turns :
        ts[t].pc # "idle" =>
            \A i \in AiMessages(msgs, ts[t].aiMsgId) :
                \E u \in 1..(i - 1) : msgs[u].id = ts[t].userMsgId

\* C32: each submission with non-blank input appends exactly one user Message, in
\* the step that starts the call and before its request is answered, and every ai
\* Message of a turn is in the Store after that turn's user Message; while the
\* input is empty or whitespace-only no call starts, no user Message is added and
\* hasStarted stays, and typing changes only through a call already running.
C32_SubmissionEntry ==
    [][ /\ nTurns' # nTurns =>
             /\ Truthy(Trim(inputValue))
             /\ nTurns' = nTurns + 1
             /\ turns[nTurns'].pc = "idle"
             /\ turns'[nTurns'].pc \notin {"idle", "closed", "failed"}
             /\ messages' = Append(messages,
                                   Message(turns'[nTurns'].userMsgId, inputValue, "user"))
        /\ nTurns' = nTurns => UserCount(messages') <= UserCount(messages)
        /\ ~Truthy(Trim(inputValue)) =>
             /\ nTurns' = nTurns
             /\ hasStarted' = hasStarted
             /\ isTyping' # isTyping => (nEvents' # nEvents \/ turns' # turns)
             /\ messages' # messages => (nEvents' # nEvents \/ turns' # turns)
        /\ AiAfterUser(messages', turns') ]_vars

\* two overlapping turns whose replies are committed in the reverse order of
\* their submissions: user, user, ai of the second turn, ai of the first
C32_Witness ==
    /\ nTurns = 2
    /\ Len(messages) = 4
    /\ messages[1].sender = "user" /\ messages[1].id = turns[1].userMsgId
    /\ messages[2].sender = "user" /\ messages[2].id = turns[2].userMsgId
    /\ messages[3].sender = "ai" /\ messages[3].id = turns[2].aiMsgId
    /\ messages[4].sender = "ai" /\ messages[4].id = turns[1].aiMsgId
    /\ turns[2].userMsgId # turns[1].aiMsgId


\* C33: a commit never makes an ai Message with empty text visible: after a step
\* in which AgentComplete, Transition or Complete inserts or updates the turn's ai
\* Message, the text of that Message is non-empty, also when AgentComplete arrives
\* before any Content.
C33_CommitShowsText ==
    [][\A t \in Turns :
          (nEvents' # nEvents /\ CommitStep(t)) =>
              \A i \in AiMessages(messages', turns[t].aiMsgId) : messages'[i].text # <<>>]_vars

====
